---- MODULE Spec2Model ----
(***************************************************************************)
(* Model of autora.experiment_runner.firebase_prolific: the two poll loops *)
(* _firebase_run (host only) and _firebase_prolific_run (host plus         *)
(* recruiter).  One run is modelled from the call of run(conditions) to    *)
(* its return or to the exception that ends it.  Every remote call is one  *)
(* step; each call either returns or raises.                               *)
(***************************************************************************)
EXTENDS Integers, Sequences, FiniteSets, TLC

VARIABLES
    mode,              \* which runner the factory built: "firebase" or "firebase_prolific"
    conditions,        \* the batch handed to run(conditions)
    kwargs,            \* the configuration bound by the factory
    pc,                \* the next remote call (or sleep) of the run, "returned", "error"
    time_out,          \* local time_out (0 while unassigned)
    prolific_dict,     \* response of setup_study
    setup_places,      \* total_available_places argument given to setup_study
    check_firebase,    \* last host status read ("none" before the first read)
    check_prolific,    \* last recruiter status read
    host_timeout_arg,  \* time-out argument of the last check_firebase_status call
    tick,              \* number of loop iterations started
    tick_actions,      \* recruiter actions issued in the current iteration
    campaign,          \* the campaign's status on the recruiter platform
    n_send,            \* calls of send_conditions
    n_setup,           \* calls of setup_study
    n_get_obs,         \* calls of get_observations
    recruiter_called,  \* some recruiter operation has been called
    raised,            \* the call whose exception ended the run ("none" otherwise)
    observation,       \* the mapping get_observations returned, in iteration order
    observation_list,  \* the value the run returns
    n_sleep,           \* calls of time.sleep
    tick_reads,        \* status reads called in the current iteration, in order
    raised_kind,       \* the kind of exception the failing call raised ("none" otherwise)
    outcome,           \* the exception the caller of run(conditions) receives
    decisions,         \* history: per finished iteration, what it read and what it did
    settled,           \* the platforms report completion from now on (liveness only)
    run_pc,            \* two runs side by side: the call each run makes next
    run_credentials,   \* kwargs["firebase_credentials"] each run is bound to
    run_check_firebase,\* each run's local check_firebase
    run_result,        \* the observation_list each run returned
    host               \* the host's store, per (collection, credentials)

vars == <<mode, conditions, kwargs, pc, time_out, prolific_dict, setup_places,
          check_firebase, check_prolific, host_timeout_arg, tick, tick_actions,
          campaign, n_send, n_setup, n_get_obs, recruiter_called, raised,
          observation, observation_list, n_sleep, tick_reads, raised_kind,
          outcome, decisions, settled,
          run_pc, run_credentials, run_check_firebase, run_result, host>>

(* The part of the state only the two side-by-side runs use *)
concurrent == <<run_pc, run_credentials, run_check_firebase, run_result, host>>

----------------------------------------------------------------------------
(* Bounds *)
MaxConditions == 2
MaxSubs == 2
MaxTicks == 3
MaxObs == 3
MaxAllowedTime == 2

(* Program constant: minutes to seconds, line 72 *)
SecondsPerMinute == 60

(* Two runs side by side: the batch each is called with, the credentials   *)
(* a runner can be created with, and the places of the host they address   *)
Runs == {1, 2}
Batches == [r \in Runs |-> IF r = 1 THEN <<"A">> ELSE <<"B", "C">>]
Credentials == {"cred1", "cred2"}
Collection == "autora"
Locations == {Collection} \X Credentials
EmptyStore == [conditions |-> <<>>, finished |-> FALSE]

HostStatuses == {"unavailable", "available", "finished"}
CampaignStatuses == {"UNPUBLISHED", "PAUSED", "STARTED"}
Modes == {"firebase", "firebase_prolific"}
KwTimeOuts == {60, 100}

(* Keys the host assigns, as sequences of character codes:                 *)
(* "c1", "c2", "c10", "A"                                                  *)
Keys == {<<99, 49>>, <<99, 50>>, <<99, 49, 48>>, <<65>>}
Vals == {"X", "Y"}

NoSnapshot == [status |-> "none", number_of_submissions |-> 0, total_available_places |-> 0]
NoDict == [maximum_allowed_time |-> 0, id |-> "none"]

----------------------------------------------------------------------------
(* Python's str comparison: code point by code point, a proper prefix is smaller *)
RECURSIVE KeyLess(_, _)
KeyLess(a, b) ==
    IF a = <<>> THEN b # <<>>
    ELSE IF b = <<>> THEN FALSE
    ELSE IF Head(a) < Head(b) THEN TRUE
    ELSE IF Head(b) < Head(a) THEN FALSE
    ELSE KeyLess(Tail(a), Tail(b))

(* observation.keys(): the keys in the mapping's iteration order *)
KeysOf(obs) == [i \in 1..Len(obs) |-> obs[i].key]

(* observation[key] *)
GetItem(obs, k) == LET i == CHOOSE j \in 1..Len(obs) : obs[j].key = k IN obs[i].value

RECURSIVE InsertKey(_, _)
InsertKey(k, s) ==
    IF s = <<>> THEN <<k>>
    ELSE IF KeyLess(k, Head(s)) THEN <<k>> \o s
    ELSE <<Head(s)>> \o InsertKey(k, Tail(s))

RECURSIVE SortedSeq(_)
SortedSeq(s) == IF s = <<>> THEN <<>> ELSE InsertKey(Head(s), SortedSeq(Tail(s)))

(* A slip that drops the sort: the keys stay in iteration order *)
sorted_unsorted(ks) == ks

(* sorted(observation.keys()) *)
sorted(ks) == SortedSeq(ks)

(* [observation[key] for key in sorted(observation.keys())] *)
ObservationList(obs) ==
    LET ks == sorted(KeysOf(obs)) IN [i \in 1..Len(ks) |-> GetItem(obs, ks[i])]

(* The mappings get_observations can return: distinct keys, any iteration order *)
Mappings ==
    UNION {{ s \in [1..n -> [key : Keys, value : Vals]] :
                \A i, j \in 1..n : i # j => s[i].key # s[j].key } : n \in 0..MaxObs}

----------------------------------------------------------------------------
(* The recruiter platform: what a successful action does to the campaign   *)
TargetStatus(action) == IF action = "pause_study" THEN "PAUSED" ELSE "STARTED"

(* No try/except anywhere: the value a call returns lets the run go on to  *)
(* its next statement, an exception leaves the function                    *)
AfterCall_swallow(ok, next) == next

AfterCall(ok, next) == IF ok THEN next ELSE "error"

Raised(ok, call) == IF ok THEN "none" ELSE call

HostCalls == {"send_conditions", "check_firebase_status", "get_observations"}

(* The kinds of failure a collaborator's call can raise *)
ErrorKinds(call) ==
    IF call = "NameError" THEN {"NameError"}
    ELSE IF call \in HostCalls THEN {"HostUnreachable", "AuthError"}
    ELSE {"RecruiterUnreachable", "AuthError"}

NoError == [call |-> "none", kind |-> "none"]

(* A slip that wraps every failure in one exception type *)
Propagate_collapse(exc) == [call |-> exc.call, kind |-> "RuntimeError"]

(* No except clause between the failing call and the caller of run: the    *)
(* exception object reaches the caller as raised                           *)
Propagate(exc) == exc

(* What a call leaves behind: nothing when it returns, its exception when  *)
(* it raises                                                               *)
Exception(call) ==
    IF call = "none"
    THEN raised_kind' = "none" /\ outcome' = NoError
    ELSE \E k \in ErrorKinds(call) :
             /\ raised_kind' = k
             /\ outcome' = Propagate([call |-> call, kind |-> k])

(* kwargs["time_out"], line 28 *)
HostTimeOut(kw) == kw.time_out

(* prolific_dict["maximum_allowed_time"] * 60, line 72 *)
DeriveTimeOut_minutes(pd) == pd.maximum_allowed_time

DeriveTimeOut(pd) == pd.maximum_allowed_time * SecondsPerMinute

(* total_available_places=len(conditions), line 67 *)
TotalAvailablePlaces_plus(conds) == Len(conds) + 1

TotalAvailablePlaces(conds) == Len(conds)

(* check_firebase == "finished", line 37 *)
HostFinished_eager(cf) == cf # "available"

HostFinished(cf) == cf = "finished"

(* lines 83-86 *)
Complete_either(cf, cp) ==
    cp.number_of_submissions >= cp.total_available_places \/ cf = "finished"

(* A slip that waits for more submissions than there are places *)
Complete_oversubscribed(cf, cp) ==
    cp.number_of_submissions > cp.total_available_places /\ cf = "finished"

Complete(cf, cp) ==
    cp.number_of_submissions >= cp.total_available_places /\ cf = "finished"

(* A slip that polls again at once when the tick has nothing to pause *)
Line104_nosleep(cf, st) ==
    IF cf = "unavailable" /\ st = "STARTED" THEN "pause_study"
    ELSE "check_firebase_status"

(* A slip that pauses whenever the host has no open slot *)
Line104_always(cf, st) ==
    IF cf = "unavailable" THEN "pause_study" ELSE "sleep"

(* lines 104-108, then the sleep of line 109 *)
Line104(cf, st) ==
    IF cf = "unavailable" /\ st = "STARTED" THEN "pause_study" ELSE "sleep"

(* A slip that starts any campaign that is not STARTED *)
Line100_notstarted(cf, st) ==
    IF cf = "available" /\ st # "STARTED" THEN "start_study" ELSE Line104(cf, st)

(* lines 100-103 *)
Line100(cf, st) ==
    IF cf = "available" /\ st = "PAUSED" THEN "start_study" ELSE Line104(cf, st)

(* A slip that remembers having published and does not publish again *)
Line92_once(cf, st) ==
    IF /\ cf = "available" /\ st = "UNPUBLISHED"
       /\ \A i \in DOMAIN decisions : decisions[i].actions # <<"publish_study">>
    THEN "publish_study"
    ELSE Line100(cf, st)

(* A slip that publishes again while the campaign is already running *)
Line92_republish(cf, st) ==
    IF cf = "available" /\ st \in {"UNPUBLISHED", "STARTED"} THEN "publish_study"
    ELSE Line100(cf, st)

(* lines 92-99: "finished" passes, then the first test of the available branch *)
Line92(cf, st) ==
    IF cf = "available" /\ st = "UNPUBLISHED" THEN "publish_study" ELSE Line100(cf, st)

(* A slip that asks the recruiter only while no status has been read yet *)
Truthy_cached(pd) == check_prolific = NoSnapshot

(* bool(prolific_dict), line 81: a dict is true when it has a key *)
Truthy(pd) == DOMAIN pd # {}

(* line 81: with a true prolific_dict the recruiter is asked; otherwise    *)
(* lines 92-105 run on the check_prolific of an earlier iteration, and     *)
(* with none bound the name lookup of line 96 or 105 raises NameError      *)
Line81(pd, cf, cp) ==
    IF Truthy(pd) THEN "check_prolific_status"
    ELSE IF cp = NoSnapshot
         THEN (IF cf \in {"available", "unavailable"} THEN "error" ELSE "sleep")
         ELSE Line92(cf, cp.status)

(* return observation_list, lines 41 and 89; without it the loop goes on *)
AfterReturn_continue == "sleep"

AfterReturn == "returned"

(* while True: the statement after the sleep, lines 35 and 75 *)
LoopHead == "check_firebase_status"

----------------------------------------------------------------------------
Init ==
    /\ mode \in Modes
    /\ conditions \in UNION {[1..n -> {"condition"}] : n \in 0..MaxConditions}
    /\ kwargs \in [time_out : KwTimeOuts]
    /\ pc = "send_conditions"
    /\ time_out = 0
    /\ prolific_dict = NoDict
    /\ setup_places = 0
    /\ check_firebase = "none"
    /\ check_prolific = NoSnapshot
    /\ host_timeout_arg = 0
    /\ tick = 0
    /\ tick_actions = <<>>
    /\ campaign = "none"
    /\ n_send = 0
    /\ n_setup = 0
    /\ n_get_obs = 0
    /\ recruiter_called = FALSE
    /\ raised = "none"
    /\ observation = <<>>
    /\ observation_list = <<>>
    /\ n_sleep = 0
    /\ tick_reads = <<>>
    /\ raised_kind = "none"
    /\ outcome = NoError
    /\ decisions = <<>>
    /\ settled = FALSE
    /\ run_pc = [r \in Runs |-> "runner"]
    /\ run_credentials = [r \in Runs |-> "none"]
    /\ run_check_firebase = [r \in Runs |-> "none"]
    /\ run_result = [r \in Runs |-> <<>>]
    /\ host = [loc \in Locations |-> EmptyStore]

(*************************** _firebase_run *********************************)
(* lines 27-32 *)
FbSendConditions ==
    /\ mode = "firebase" /\ pc = "send_conditions"
    /\ time_out' = HostTimeOut(kwargs)
    /\ n_send' = n_send + 1
    /\ \E ok \in BOOLEAN :
         /\ pc' = AfterCall(ok, "check_firebase_status")
         /\ raised' = Raised(ok, "send_conditions")
         /\ Exception(Raised(ok, "send_conditions"))
    /\ UNCHANGED <<mode, conditions, kwargs, prolific_dict, setup_places,
                   check_firebase, check_prolific, host_timeout_arg, tick,
                   tick_actions, campaign, n_setup, n_get_obs, recruiter_called,
                   observation, observation_list,
                   n_sleep, tick_reads>>

(* lines 35-37 *)
FbCheckFirebase ==
    /\ mode = "firebase" /\ pc = "check_firebase_status"
    /\ tick' = tick + 1
    /\ host_timeout_arg' = time_out
    /\ \/ \E s \in HostStatuses :
            /\ check_firebase' = s
            /\ pc' = IF HostFinished(s) THEN "get_observations" ELSE "sleep"
            /\ raised' = "none"
            /\ Exception("none")
       \/ /\ pc' = AfterCall(FALSE, pc)
          /\ raised' = Raised(FALSE, "check_firebase_status")
          /\ Exception(Raised(FALSE, "check_firebase_status"))
          /\ UNCHANGED check_firebase
    /\ tick_reads' = <<"check_firebase_status">>
    /\ UNCHANGED <<mode, conditions, kwargs, time_out, prolific_dict, setup_places,
                   check_prolific, tick_actions, campaign, n_send, n_setup,
                   n_get_obs, recruiter_called, observation, observation_list,
                   n_sleep>>

(* lines 39-41 *)
FbGetObservations ==
    /\ mode = "firebase" /\ pc = "get_observations"
    /\ n_get_obs' = n_get_obs + 1
    /\ \/ \E obs \in Mappings :
            /\ observation' = obs
            /\ observation_list' = ObservationList(obs)
            /\ pc' = AfterReturn
            /\ raised' = "none"
            /\ Exception("none")
       \/ /\ pc' = AfterCall(FALSE, pc)
          /\ raised' = Raised(FALSE, "get_observations")
          /\ Exception(Raised(FALSE, "get_observations"))
          /\ UNCHANGED <<observation, observation_list>>
    /\ UNCHANGED <<mode, conditions, kwargs, time_out, prolific_dict, setup_places,
                   check_firebase, check_prolific, host_timeout_arg, tick,
                   tick_actions, campaign, n_send, n_setup, recruiter_called,
                   n_sleep, tick_reads>>

(* line 42, and back to line 35 *)
FbSleep ==
    /\ mode = "firebase" /\ pc = "sleep"
    /\ tick < MaxTicks
    /\ pc' = LoopHead
    /\ n_sleep' = n_sleep + 1
    /\ UNCHANGED <<mode, conditions, kwargs, time_out, prolific_dict, setup_places,
                   check_firebase, check_prolific, host_timeout_arg, tick,
                   tick_actions, campaign, n_send, n_setup, n_get_obs,
                   recruiter_called, raised, observation, observation_list,
                   tick_reads, raised_kind, outcome>>

(************************ _firebase_prolific_run ***************************)
(* lines 57-58 *)
PrSendConditions ==
    /\ mode = "firebase_prolific" /\ pc = "send_conditions"
    /\ n_send' = n_send + 1
    /\ \E ok \in BOOLEAN :
         /\ pc' = AfterCall(ok, "setup_study")
         /\ raised' = Raised(ok, "send_conditions")
         /\ Exception(Raised(ok, "send_conditions"))
    /\ UNCHANGED <<mode, conditions, kwargs, time_out, prolific_dict, setup_places,
                   check_firebase, check_prolific, host_timeout_arg, tick,
                   tick_actions, campaign, n_setup, n_get_obs, recruiter_called,
                   observation, observation_list,
                   n_sleep, tick_reads>>

(* lines 60-73 *)
PrSetupStudy ==
    /\ mode = "firebase_prolific" /\ pc = "setup_study"
    /\ n_setup' = n_setup + 1
    /\ setup_places' = TotalAvailablePlaces(conditions)
    /\ recruiter_called' = TRUE
    /\ \/ \E m \in 1..MaxAllowedTime :
            LET pd == [maximum_allowed_time |-> m, id |-> "study"] IN
            /\ prolific_dict' = pd
            /\ time_out' = DeriveTimeOut(pd)
            /\ campaign' = "UNPUBLISHED"
            /\ pc' = "check_firebase_status"
            /\ raised' = "none"
            /\ Exception("none")
       \/ /\ pc' = AfterCall(FALSE, pc)
          /\ raised' = Raised(FALSE, "setup_study")
          /\ Exception(Raised(FALSE, "setup_study"))
          /\ UNCHANGED <<prolific_dict, time_out, campaign>>
    /\ UNCHANGED <<mode, conditions, kwargs, check_firebase, check_prolific,
                   host_timeout_arg, tick, tick_actions, n_send, n_get_obs,
                   observation, observation_list,
                   n_sleep, tick_reads>>

(* lines 75-79 *)
PrCheckFirebase ==
    /\ mode = "firebase_prolific" /\ pc = "check_firebase_status"
    /\ tick' = tick + 1
    /\ tick_actions' = <<>>
    /\ host_timeout_arg' = time_out
    /\ \/ \E s \in HostStatuses :
            LET next == Line81(prolific_dict, s, check_prolific) IN
            /\ check_firebase' = s
            /\ pc' = next
            /\ raised' = IF next = "error" THEN "NameError" ELSE "none"
            /\ Exception(IF next = "error" THEN "NameError" ELSE "none")
       \/ /\ pc' = AfterCall(FALSE, pc)
          /\ raised' = Raised(FALSE, "check_firebase_status")
          /\ Exception(Raised(FALSE, "check_firebase_status"))
          /\ UNCHANGED check_firebase
    /\ tick_reads' = <<"check_firebase_status">>
    /\ UNCHANGED <<mode, conditions, kwargs, time_out, prolific_dict, setup_places,
                   check_prolific, campaign, n_send, n_setup, n_get_obs,
                   recruiter_called, observation, observation_list,
                   n_sleep>>

(* lines 81-86, and the branch taken at lines 92-104 when not complete *)
PrCheckProlific ==
    /\ mode = "firebase_prolific" /\ pc = "check_prolific_status"
    /\ prolific_dict # NoDict
    /\ recruiter_called' = TRUE
    /\ \/ \E n \in 0..MaxSubs :
            LET cp == [status |-> campaign, number_of_submissions |-> n,
                       total_available_places |-> setup_places] IN
            /\ check_prolific' = cp
            /\ pc' = IF Complete(check_firebase, cp) THEN "get_observations"
                     ELSE Line92(check_firebase, cp.status)
            /\ raised' = "none"
            /\ Exception("none")
       \/ /\ pc' = AfterCall(FALSE, pc)
          /\ raised' = Raised(FALSE, "check_prolific_status")
          /\ Exception(Raised(FALSE, "check_prolific_status"))
          /\ UNCHANGED check_prolific
    /\ tick_reads' = Append(tick_reads, "check_prolific_status")
    /\ UNCHANGED <<mode, conditions, kwargs, time_out, prolific_dict, setup_places,
                   check_firebase, host_timeout_arg, tick, tick_actions, campaign,
                   n_send, n_setup, n_get_obs, observation, observation_list,
                   n_sleep>>

(* lines 87-89 *)
PrGetObservations ==
    /\ mode = "firebase_prolific" /\ pc = "get_observations"
    /\ n_get_obs' = n_get_obs + 1
    /\ \/ \E obs \in Mappings :
            /\ observation' = obs
            /\ observation_list' = ObservationList(obs)
            /\ pc' = AfterReturn
            /\ raised' = "none"
            /\ Exception("none")
       \/ /\ pc' = AfterCall(FALSE, pc)
          /\ raised' = Raised(FALSE, "get_observations")
          /\ Exception(Raised(FALSE, "get_observations"))
          /\ UNCHANGED <<observation, observation_list>>
    /\ UNCHANGED <<mode, conditions, kwargs, time_out, prolific_dict, setup_places,
                   check_firebase, check_prolific, host_timeout_arg, tick,
                   tick_actions, campaign, n_send, n_setup, recruiter_called,
                   n_sleep, tick_reads>>

(* A recruiter action: the call, its effect on the platform when it        *)
(* succeeds, and the statement the run goes on to                          *)
RecruiterAction(action, next) ==
    /\ mode = "firebase_prolific" /\ pc = action
    /\ tick_actions' = Append(tick_actions, action)
    /\ recruiter_called' = TRUE
    /\ \E ok \in BOOLEAN :
         /\ pc' = AfterCall(ok, next)
         /\ raised' = Raised(ok, action)
         /\ Exception(Raised(ok, action))
         /\ campaign' = IF ok THEN TargetStatus(action) ELSE campaign
    /\ UNCHANGED <<mode, conditions, kwargs, time_out, prolific_dict, setup_places,
                   check_firebase, check_prolific, host_timeout_arg, tick, n_send,
                   n_setup, n_get_obs, observation, observation_list,
                   n_sleep, tick_reads>>

(* lines 96-99, then line 100 *)
PrPublishStudy ==
    RecruiterAction("publish_study", Line100(check_firebase, check_prolific.status))

(* lines 100-103, then line 104 *)
PrStartStudy ==
    RecruiterAction("start_study", Line104(check_firebase, check_prolific.status))

(* lines 104-108, then line 109 *)
PrPauseStudy == RecruiterAction("pause_study", "sleep")

(* line 109, and back to line 75 *)
PrSleep ==
    /\ mode = "firebase_prolific" /\ pc = "sleep"
    /\ tick < MaxTicks
    /\ pc' = LoopHead
    /\ n_sleep' = n_sleep + 1
    /\ UNCHANGED <<mode, conditions, kwargs, time_out, prolific_dict, setup_places,
                   check_firebase, check_prolific, host_timeout_arg, tick,
                   tick_actions, campaign, n_send, n_setup, n_get_obs,
                   recruiter_called, raised, observation, observation_list,
                   tick_reads, raised_kind, outcome>>

(* The recruiter platform changes the campaign's status on its own while   *)
(* the run polls (reviews, participants, the study's owner)                *)
CampaignDrift ==
    /\ campaign # "none"
    /\ pc \notin {"returned", "error"}
    /\ \E s \in CampaignStatuses \ {campaign} : campaign' = s
    /\ UNCHANGED <<mode, conditions, kwargs, pc, time_out, prolific_dict,
                   setup_places, check_firebase, check_prolific, host_timeout_arg,
                   tick, tick_actions, n_send, n_setup, n_get_obs,
                   recruiter_called, raised, observation, observation_list,
                   n_sleep, tick_reads, raised_kind, outcome>>

(* The history and the liveness switch play no part in a plain run *)
NoHistory == UNCHANGED <<decisions, settled, concurrent>>

Next ==
    \/ FbSendConditions /\ NoHistory
    \/ FbCheckFirebase /\ NoHistory
    \/ FbGetObservations /\ NoHistory
    \/ FbSleep /\ NoHistory
    \/ PrSendConditions /\ NoHistory
    \/ PrSetupStudy /\ NoHistory
    \/ PrCheckFirebase /\ NoHistory
    \/ PrCheckProlific /\ NoHistory
    \/ PrGetObservations /\ NoHistory
    \/ PrPublishStudy /\ NoHistory
    \/ PrStartStudy /\ NoHistory
    \/ PrPauseStudy /\ NoHistory
    \/ PrSleep /\ NoHistory
    \/ CampaignDrift /\ NoHistory

Spec == Init /\ [][Next]_vars

----------------------------------------------------------------------------
(* The combined run with its history: every tick that reaches its sleep or *)
(* its fetch is appended to decisions with the pair it read, whether it    *)
(* detected completion, and the recruiter actions it issued.               *)
Record ==
    decisions' =
        IF pc' \in {"sleep", "get_observations"} /\ pc' # pc
        THEN Append(decisions, [host |-> check_firebase',
                                status |-> check_prolific'.status,
                                complete |-> (pc' = "get_observations"),
                                actions |-> tick_actions'])
        ELSE decisions

Traced(A) == A /\ Record /\ UNCHANGED <<settled, concurrent>>

(* The inputs the history does not depend on are held to one value: a      *)
(* campaign of one minute, and a fetch that returns nothing or one         *)
(* observation per condition                                               *)
ScriptedObservation ==
    << [key |-> <<99, 49>>, value |-> "X"], [key |-> <<99, 50>>, value |-> "Y"] >>

OneMinute == prolific_dict'.maximum_allowed_time <= 1

OnePerCondition == observation' \in {<<>>, ScriptedObservation}

TraceInit ==
    /\ Init
    /\ mode = "firebase_prolific"
    /\ Len(conditions) = 2
    /\ \A t \in KwTimeOuts : kwargs.time_out <= t

TraceNext ==
    \/ Traced(PrSendConditions)
    \/ Traced(PrSetupStudy /\ OneMinute)
    \/ Traced(PrCheckFirebase)
    \/ Traced(PrCheckProlific)
    \/ Traced(OnePerCondition /\ PrGetObservations)
    \/ Traced(PrPublishStudy)
    \/ Traced(PrStartStudy)
    \/ Traced(PrPauseStudy)
    \/ Traced(PrSleep)
    \/ Traced(CampaignDrift)

SpecTrace == TraceInit /\ [][TraceNext]_vars

(* The same with a recruiter platform on which nothing but the run's own   *)
(* actions changes the campaign                                            *)
QuietNext ==
    \/ Traced(PrSendConditions)
    \/ Traced(PrSetupStudy /\ OneMinute)
    \/ Traced(PrCheckFirebase)
    \/ Traced(PrCheckProlific)
    \/ Traced(OnePerCondition /\ PrGetObservations)
    \/ Traced(PrPublishStudy)
    \/ Traced(PrStartStudy)
    \/ Traced(PrPauseStudy)
    \/ Traced(PrSleep)

SpecQuiet == TraceInit /\ [][QuietNext]_vars

----------------------------------------------------------------------------
(* Either run on platforms that settle: from the step Settle on, every     *)
(* host read that returns gives "finished", and every recruiter read that  *)
(* returns shows all places taken.  The run is a sequential program that   *)
(* keeps executing, so its steps are taken under weak fairness.            *)
Settle ==
    /\ ~settled
    /\ pc \notin {"returned", "error"}
    /\ tick < MaxTicks
    /\ settled' = TRUE
    /\ UNCHANGED <<mode, conditions, kwargs, pc, time_out, prolific_dict,
                   setup_places, check_firebase, check_prolific, host_timeout_arg,
                   tick, tick_actions, campaign, n_send, n_setup, n_get_obs,
                   recruiter_called, raised, observation, observation_list,
                   n_sleep, tick_reads, raised_kind, outcome, decisions, concurrent>>

SettledReads ==
    (settled /\ pc' # "error") =>
        /\ pc = "check_firebase_status" => check_firebase' = "finished"
        /\ pc = "check_prolific_status" =>
               check_prolific'.number_of_submissions
                   >= check_prolific'.total_available_places

Live(A) == A /\ SettledReads /\ UNCHANGED <<decisions, settled, concurrent>>

LiveRun ==
    \/ Live(FbSendConditions)
    \/ Live(FbCheckFirebase)
    \/ Live(OnePerCondition /\ FbGetObservations)
    \/ Live(FbSleep)
    \/ Live(PrSendConditions)
    \/ Live(PrSetupStudy /\ OneMinute)
    \/ Live(PrCheckFirebase)
    \/ Live(PrCheckProlific)
    \/ Live(OnePerCondition /\ PrGetObservations)
    \/ Live(PrPublishStudy)
    \/ Live(PrStartStudy)
    \/ Live(PrPauseStudy)
    \/ Live(PrSleep)

LiveNext ==
    \/ LiveRun
    \/ Live(CampaignDrift)
    \/ Settle

SpecLive == Init /\ [][LiveNext]_vars /\ WF_vars(LiveRun)

----------------------------------------------------------------------------
(* Two host-only runs side by side, their remote calls interleaved in any  *)
(* order.  Every host call of a run names the collection "autora" and the  *)
(* credentials of its kwargs, nothing else.                                *)
Location(r) == <<Collection, run_credentials[r]>>

(* The host: a batch sent to a place either replaces what is stored there  *)
(* or is added to it, the place is finished once participants have         *)
(* answered every stored condition, and the observation of a condition     *)
(* carries the condition's name under the key "c1", "c2", ...              *)
Stored(store, conds, replace) ==
    [conditions |-> IF replace THEN conds ELSE store.conditions \o conds,
     finished |-> FALSE]

StatusOf(store) ==
    IF store.finished THEN {"finished"} ELSE {"available", "unavailable"}

ObservationsOf(store) ==
    [i \in 1..Len(store.conditions) |-> [key |-> <<99, 48 + i>>,
                                          value |-> store.conditions[i]]]

Participants ==
    /\ \E loc \in Locations :
         /\ host[loc].conditions # <<>>
         /\ ~host[loc].finished
         /\ host' = [host EXCEPT ![loc].finished = TRUE]
    /\ UNCHANGED <<run_pc, run_credentials, run_check_firebase, run_result>>

(* firebase_runner binds the kwargs, then run(x): lines 135-151 *)
FirebaseRunner(r) ==
    /\ run_pc[r] = "runner"
    /\ \E c \in Credentials : run_credentials' = [run_credentials EXCEPT ![r] = c]
    /\ run_pc' = [run_pc EXCEPT ![r] = "send_conditions"]
    /\ UNCHANGED <<run_check_firebase, run_result, host>>

(* line 32 *)
RunSendConditions(r) ==
    /\ run_pc[r] = "send_conditions"
    /\ \/ /\ \E replace \in BOOLEAN :
               host' = [host EXCEPT ![Location(r)] = Stored(@, Batches[r], replace)]
          /\ run_pc' = [run_pc EXCEPT ![r] = AfterCall(TRUE, "check_firebase_status")]
       \/ /\ run_pc' = [run_pc EXCEPT ![r] = AfterCall(FALSE, "check_firebase_status")]
          /\ UNCHANGED host
    /\ UNCHANGED <<run_credentials, run_check_firebase, run_result>>

(* lines 35-37 *)
RunCheckFirebase(r) ==
    /\ run_pc[r] = "check_firebase_status"
    /\ \/ \E s \in StatusOf(host[Location(r)]) :
            /\ run_check_firebase' = [run_check_firebase EXCEPT ![r] = s]
            /\ run_pc' = [run_pc EXCEPT
                            ![r] = IF HostFinished(s) THEN "get_observations" ELSE "sleep"]
       \/ /\ run_pc' = [run_pc EXCEPT ![r] = AfterCall(FALSE, "sleep")]
          /\ UNCHANGED run_check_firebase
    /\ UNCHANGED <<run_credentials, run_result, host>>

(* lines 39-41 *)
RunGetObservations(r) ==
    /\ run_pc[r] = "get_observations"
    /\ \/ /\ run_result' = [run_result EXCEPT
                              ![r] = ObservationList(ObservationsOf(host[Location(r)]))]
          /\ run_pc' = [run_pc EXCEPT ![r] = AfterReturn]
       \/ /\ run_pc' = [run_pc EXCEPT ![r] = AfterCall(FALSE, AfterReturn)]
          /\ UNCHANGED run_result
    /\ UNCHANGED <<run_credentials, run_check_firebase, host>>

(* line 42 *)
RunSleep(r) ==
    /\ run_pc[r] = "sleep"
    /\ run_pc' = [run_pc EXCEPT ![r] = LoopHead]
    /\ UNCHANGED <<run_credentials, run_check_firebase, run_result, host>>

(* The single run of the other specifications stands still *)
OneRunIdle ==
    UNCHANGED <<mode, conditions, kwargs, pc, time_out, prolific_dict, setup_places,
                check_firebase, check_prolific, host_timeout_arg, tick,
                tick_actions, campaign, n_send, n_setup, n_get_obs,
                recruiter_called, raised, observation, observation_list,
                n_sleep, tick_reads, raised_kind, outcome, decisions, settled>>

TwoRunsInit ==
    /\ Init
    /\ mode = "firebase"
    /\ conditions = <<>>
    /\ \A t \in KwTimeOuts : kwargs.time_out <= t

TwoRunsNext ==
    \/ \E r \in Runs : FirebaseRunner(r) /\ OneRunIdle
    \/ \E r \in Runs : RunSendConditions(r) /\ OneRunIdle
    \/ \E r \in Runs : RunCheckFirebase(r) /\ OneRunIdle
    \/ \E r \in Runs : RunGetObservations(r) /\ OneRunIdle
    \/ \E r \in Runs : RunSleep(r) /\ OneRunIdle
    \/ Participants /\ OneRunIdle

SpecTwoRuns == TwoRunsInit /\ [][TwoRunsNext]_vars

----------------------------------------------------------------------------
(* Properties *)

RecruiterActions == {"publish_study", "start_study", "pause_study"}

(* The precedence table, as the sequence of actions one tick may issue *)
TableAction(h, c) ==
    IF h = "available" /\ c = "UNPUBLISHED" THEN <<"publish_study">>
    ELSE IF h = "available" /\ c = "PAUSED" THEN <<"start_study">>
    ELSE IF h = "unavailable" /\ c = "STARTED" THEN <<"pause_study">>
    ELSE <<>>

(* C1: in combined mode a tick issues at most one recruiter action; every  *)
(* action issued, and the whole of a non-completing tick once it reaches   *)
(* its sleep, is the precedence table's entry for the (host status,        *)
(* campaign status) pair read in that tick, with no action for every other *)
(* pair.                                                                   *)
C1_PrecedenceTable ==
    mode = "firebase_prolific" =>
        /\ Len(tick_actions) <= 1
        /\ tick_actions # <<>> =>
               tick_actions = TableAction(check_firebase, check_prolific.status)
        /\ pc = "sleep" =>
               tick_actions = TableAction(check_firebase, check_prolific.status)
        /\ pc \in RecruiterActions =>
               /\ tick_actions = <<>>
               /\ TableAction(check_firebase, check_prolific.status) = <<pc>>

(* A second tick that read (unavailable, STARTED), paused, and reached its sleep *)
C1_Witness ==
    /\ mode = "firebase_prolific" /\ pc = "sleep" /\ tick = 2
    /\ check_firebase = "unavailable" /\ check_prolific.status = "STARTED"
    /\ tick_actions = <<"pause_study">>

SnapshotComplete ==
    /\ check_firebase = "finished"
    /\ check_prolific.number_of_submissions >= check_prolific.total_available_places

(* C2: in combined mode the run goes on to fetch and return in a tick      *)
(* exactly when that tick's own reads are host finished and submissions >= *)
(* places; with only one of the two it goes on to the reconciler and the   *)
(* sleep.                                                                  *)
C2_CompleteSameTick ==
    mode = "firebase_prolific" =>
        /\ pc \in {"get_observations", "returned"} => SnapshotComplete
        /\ pc \in RecruiterActions \cup {"sleep"} => ~SnapshotComplete
        /\ raised \in RecruiterActions \cup {"get_observations"} =>
               (SnapshotComplete <=> raised = "get_observations")

(* A later tick that reads host finished with too few submissions, and sleeps *)
C2_Witness ==
    /\ mode = "firebase_prolific" /\ pc = "sleep" /\ tick = 2
    /\ check_firebase = "finished"
    /\ check_prolific.number_of_submissions < check_prolific.total_available_places

(* C3: in host-only mode the run fetches and returns in a tick exactly     *)
(* when that tick's host status is finished, so on the first such tick,    *)
(* and no recruiter operation is ever called.                              *)
C3_HostOnly ==
    mode = "firebase" =>
        /\ ~recruiter_called /\ n_setup = 0 /\ tick_actions = <<>>
        /\ campaign = "none" /\ check_prolific = NoSnapshot
        /\ pc \in {"get_observations", "returned"} => check_firebase = "finished"
        /\ pc = "sleep" => check_firebase \in {"available", "unavailable"}

(* A host-only run that returned on its second tick *)
C3_Witness ==
    /\ mode = "firebase" /\ pc = "returned" /\ tick = 2 /\ check_firebase = "finished"

(* Lexicographic order on keys, stated directly: the keys agree up to a    *)
(* position where a ends or holds the smaller code                         *)
LexBefore(a, b) ==
    \E i \in 1..Len(b) :
        /\ i <= Len(a) + 1
        /\ \A j \in 1..(i - 1) : a[j] = b[j]
        /\ i = Len(a) + 1 \/ a[i] < b[i]

(* The position of the mapping's i-th entry among the keys in ascending order *)
Rank(obs, i) ==
    1 + Cardinality({j \in 1..Len(obs) : LexBefore(obs[j].key, obs[i].key)})

ValueAt(obs, k) == obs[CHOOSE i \in 1..Len(obs) : obs[i].key = k].value

(* C4: the returned sequence holds exactly the fetched mapping's values,   *)
(* one per key, in ascending lexicographic order of the keys, whatever the *)
(* mapping's iteration order; keys c2, c1, c10 give the values of c1, c10, *)
(* c2 in that order.                                                       *)
C4_SortedProjection ==
    pc = "returned" =>
        /\ Len(observation_list) = Len(observation)
        /\ \A i \in 1..Len(observation) :
               observation_list[Rank(observation, i)] = observation[i].value
        /\ {observation[i].key : i \in 1..Len(observation)}
               = {<<99, 49>>, <<99, 50>>, <<99, 49, 48>>} =>
               observation_list = << ValueAt(observation, <<99, 49>>),
                                     ValueAt(observation, <<99, 49, 48>>),
                                     ValueAt(observation, <<99, 50>>) >>

(* A combined run returned for the mapping iterated as c2, c1, c10 *)
C4_Witness ==
    /\ pc = "returned" /\ mode = "firebase_prolific"
    /\ KeysOf(observation) = << <<99, 50>>, <<99, 49>>, <<99, 49, 48>> >>
    /\ observation_list = <<"X", "Y", "X">>

TickComplete ==
    IF mode = "firebase" THEN check_firebase = "finished" ELSE SnapshotComplete

(* C5: get_observations is called at most once per run, only in a tick     *)
(* whose reads gave completion and in no tick before it, and a run that    *)
(* has returned called it exactly once.                                    *)
C5_FetchOnce ==
    /\ n_get_obs <= 1
    /\ n_get_obs > 0 => TickComplete /\ pc \in {"returned", "error"}
    /\ pc = "returned" => n_get_obs = 1
    /\ pc \notin {"returned", "error"} => n_get_obs = 0

(* A run that returned on its third tick after one fetch *)
C5_Witness == pc = "returned" /\ tick = 3 /\ n_get_obs = 1

(* C6: in combined mode send_conditions is called once and first,          *)
(* setup_study once with total_available_places = len(conditions), the     *)
(* first status poll comes only after both succeeded, and neither is       *)
(* called again while polling; the run takes no step after its return.     *)
C6_SetupOnce ==
    mode = "firebase_prolific" =>
        /\ n_send <= 1 /\ n_setup <= 1
        /\ n_send = 0 =>
               /\ pc = "send_conditions"
               /\ n_setup = 0 /\ tick = 0 /\ n_get_obs = 0 /\ ~recruiter_called
        /\ n_setup = 1 =>
               /\ n_send = 1
               /\ setup_places = Len(conditions)
        /\ n_setup = 0 => tick = 0 /\ pc \in {"send_conditions", "setup_study", "error"}
        /\ tick > 0 =>
               /\ n_send = 1 /\ n_setup = 1
               /\ raised \notin {"send_conditions", "setup_study"}
               /\ prolific_dict.id = "study"
        /\ pc = "returned" => n_send = 1 /\ n_setup = 1 /\ tick > 0 /\ ~ENABLED Next

(* A combined run with two conditions, asleep in its third tick *)
C6_Witness ==
    /\ mode = "firebase_prolific" /\ tick = 3 /\ pc = "sleep"
    /\ Len(conditions) = 2 /\ setup_places = 2 /\ n_send = 1 /\ n_setup = 1

(* C7: the time-out given to every host status check is, in combined mode, *)
(* maximum_allowed_time of the campaign creation response times 60,        *)
(* whatever the caller configured, and in host-only mode the caller's      *)
(* time_out unchanged; it is the same in every tick of a run.              *)
C7_TimeOut ==
    tick > 0 =>
        /\ mode = "firebase_prolific" =>
               host_timeout_arg = prolific_dict.maximum_allowed_time * 60
        /\ mode = "firebase" => host_timeout_arg = kwargs.time_out
        /\ host_timeout_arg = time_out

(* A combined run configured with time_out 100 that polled with 120 *)
C7_Witness ==
    /\ mode = "firebase_prolific" /\ tick = 2 /\ kwargs.time_out = 100
    /\ prolific_dict.maximum_allowed_time = 2 /\ host_timeout_arg = 120

(* C8: a remote call that fails ends the run at once in an error: the run  *)
(* has returned nothing and takes no further step (no retry, no other      *)
(* call), and the error state is entered only by a failed call.            *)
C8_FailFast ==
    /\ raised # "none" => pc = "error" /\ observation_list = <<>>
    /\ pc = "error" => raised # "none" /\ ~ENABLED Next

(* A run ended by a failing pause_study in its second tick *)
C8_Witness == pc = "error" /\ raised = "pause_study" /\ tick = 2

(* C9: a recruiter action that fails while the campaign already has the    *)
(* status the action aims for does not end the run.                        *)
C9_TolerantActions ==
    (raised \in RecruiterActions /\ campaign = TargetStatus(raised)) => pc # "error"

(* C10: a run that returns gives back as many observations as it           *)
(* submitted conditions.                                                   *)
C10_LengthMatches ==
    pc = "returned" => Len(observation_list) = Len(conditions)

(* C15: the error the caller of a failed run receives is the exception of  *)
(* the failing call, kind included: a failing host call reaches the caller *)
(* as host unreachable or authentication rejected, a failing recruiter     *)
(* call as recruiter unreachable or authentication rejected, never as one  *)
(* undifferentiated error.                                                 *)
C15_ErrorKindPreserved ==
    /\ pc = "error" =>
           /\ outcome.call = raised
           /\ outcome.kind = raised_kind
           /\ outcome.kind \in {"HostUnreachable", "RecruiterUnreachable", "AuthError"}
           /\ outcome.kind = "HostUnreachable" => raised \in HostCalls
           /\ outcome.kind = "RecruiterUnreachable" => raised \notin HostCalls
    /\ pc # "error" => outcome = NoError

(* A run ended by a recruiter call that could not reach the platform *)
C15_Witness ==
    /\ pc = "error" /\ raised = "check_prolific_status"
    /\ outcome = [call |-> "check_prolific_status", kind |-> "RecruiterUnreachable"]

BothReads == <<"check_firebase_status", "check_prolific_status">>

(* C17: in combined mode every tick calls the host status read once and    *)
(* then the recruiter status read once; wherever the tick decides on       *)
(* completion or issues an action, both values were read in that tick, and *)
(* no run ends on an unbound check_prolific.                               *)
C17_SnapshotPerTick ==
    mode = "firebase_prolific" =>
        /\ pc = "check_prolific_status" => tick_reads = <<"check_firebase_status">>
        /\ pc \in RecruiterActions \cup {"sleep", "get_observations", "returned"} =>
               /\ tick_reads = BothReads
               /\ check_prolific.status \in CampaignStatuses
        /\ tick_actions # <<>> => tick_reads = BothReads
        /\ pc = "check_firebase_status" /\ tick > 0 => tick_reads = BothReads
        /\ raised # "NameError"

(* A third tick that issued start_study on the two values it read itself *)
C17_Witness ==
    /\ mode = "firebase_prolific" /\ tick = 3 /\ pc = "sleep"
    /\ tick_reads = BothReads /\ tick_actions = <<"start_study">>
    /\ check_firebase = "available" /\ check_prolific.status = "PAUSED"

(* C18: a tick that detects completion issues no recruiter action and does *)
(* not sleep; every other tick sleeps exactly once, after its action if it *)
(* has one and before the next host status read; nothing sleeps before the *)
(* first tick.                                                             *)
C18_SleepPerTick ==
    /\ tick = 0 => n_sleep = 0
    /\ tick > 0 =>
           n_sleep = IF pc = "check_firebase_status" THEN tick ELSE tick - 1
    /\ pc \in {"get_observations", "returned"} => tick_actions = <<>>
    /\ raised = "get_observations" => tick_actions = <<>>

(* A run that slept twice and returned in its third tick without an action *)
C18_Witness ==
    /\ mode = "firebase_prolific" /\ pc = "returned" /\ tick = 3 /\ n_sleep = 2
    /\ tick_actions = <<>>

Ticks == DOMAIN decisions

RECURSIVE Flatten(_)
Flatten(seqs) == IF seqs = <<>> THEN <<>> ELSE Head(seqs) \o Flatten(Tail(seqs))

(* The recruiter actions of the run so far, in the order of the ticks *)
ActionLog == Flatten([i \in Ticks |-> decisions[i].actions])

(* C13: the recruiter action of a tick depends on the (host status,        *)
(* campaign status) pair it read and on nothing before it: any two ticks   *)
(* of a run that read the same pair issued the same action, and a tick     *)
(* that reads (available, UNPUBLISHED) publishes whether or not an earlier *)
(* tick already did.                                                       *)
C13_ActionFunctionOfPair ==
    /\ \A i, j \in Ticks :
           (decisions[i].host = decisions[j].host
            /\ decisions[i].status = decisions[j].status)
               => decisions[i].actions = decisions[j].actions
    /\ \A i \in Ticks :
           (decisions[i].host = "available" /\ decisions[i].status = "UNPUBLISHED")
               => decisions[i].actions = <<"publish_study">>

(* Two ticks of one run read (available, UNPUBLISHED) and both published *)
C13_Witness ==
    /\ Len(decisions) = 3
    /\ decisions[1].host = "available" /\ decisions[1].status = "UNPUBLISHED"
    /\ decisions[1].actions = <<"publish_study">>
    /\ decisions[3] = decisions[1]

(* C14: over the whole run the recruiter actions issued are, in tick       *)
(* order, the table's actions of the ticks that did not detect completion; *)
(* with two places, host statuses available, available, finished, campaign *)
(* UNPUBLISHED then STARTED and two submissions read with finished, that   *)
(* is one publish on the first tick, no start, no pause, and completion on *)
(* the third tick.                                                         *)
C14_ActionTrace ==
    /\ ActionLog =
           Flatten([i \in Ticks |->
                       IF decisions[i].complete THEN <<>>
                       ELSE TableAction(decisions[i].host, decisions[i].status)])
    /\ \A i \in Ticks : decisions[i].complete => i = Len(decisions)
    /\ ( /\ tick = 3 /\ Len(decisions) = 3
         /\ [i \in Ticks |-> decisions[i].host] = <<"available", "available", "finished">>
         /\ [i \in Ticks |-> decisions[i].status] = <<"UNPUBLISHED", "STARTED", "STARTED">>
         /\ check_prolific.total_available_places = 2
         /\ check_prolific.number_of_submissions = 2 )
       => /\ ActionLog = <<"publish_study">>
          /\ decisions[1].actions = <<"publish_study">>
          /\ decisions[3].complete
          /\ pc \in {"get_observations", "returned", "error"}

(* The run of the example, returned on its third tick *)
C14_Witness ==
    /\ pc = "returned" /\ tick = 3 /\ Len(decisions) = 3
    /\ [i \in Ticks |-> decisions[i].host] = <<"available", "available", "finished">>
    /\ [i \in Ticks |-> decisions[i].status] = <<"UNPUBLISHED", "STARTED", "STARTED">>
    /\ check_prolific.total_available_places = 2
    /\ check_prolific.number_of_submissions = 2
    /\ ActionLog = <<"publish_study">>

C12_NoDeadline ==
    /\ [][(pc' = "get_observations" /\ pc # "get_observations") => TickComplete']_vars
    /\ [][(pc = "sleep" /\ pc' # "sleep") => pc' = LoopHead]_vars
    /\ [](pc = "sleep" /\ tick < MaxTicks => ENABLED (FbSleep \/ PrSleep))
    /\ (settled ~> pc \in {"returned", "error"})
    /\ (settled /\ raised = "none") ~> (pc = "returned" \/ raised # "none")

(* A combined run that polled twice without completion, then returned once *)
(* the platforms had settled                                               *)
C12_Witness ==
    /\ settled /\ mode = "firebase_prolific" /\ pc = "returned"
    /\ tick = 3 /\ n_sleep = 2 /\ TickComplete

(* C11: two runs whose remote calls interleave in any order are            *)
(* independent: a run that has returned returns the observations of the    *)
(* conditions it submitted itself, one per condition and in their order,   *)
(* never those of the other run and never a mix of both.                   *)
C11_RunsIndependent ==
    \A r \in Runs : run_pc[r] = "returned" => run_result[r] = Batches[r]

====
